---- MODULE Spec2Model ----
(***************************************************************************)
(* A model of the mimir Cache (crates/mimir/src/lib.rs): a multi-type,     *)
(* keyed cache with three maps, `deser` (tag -> boxed sub-container as it  *)
(* came out of a document), `items` (TypeId -> boxed sub-container) and    *)
(* `keys` (TypeId -> tag); and of the hermod Sender                        *)
(* (crates/hermod/src/queue.rs): a queue of events that one worker task    *)
(* hands to a listener, answering each on a channel of its own.            *)
(*                                                                         *)
(* The cache is specified by Spec, the queue by SpecQueue; each leaves the *)
(* other's variables alone.  So do the hermod EventEmitter                 *)
(* (crates/hermod/src/events.rs), specified by SpecEmitter, and the skuld  *)
(* logger (crates/skuld/src/logger/mod.rs), specified by SpecLogger.       *)
(***************************************************************************)
EXTENDS Integers, FiniteSets, Sequences, TLC

VARIABLES deser, keys, items, op, life

\* The queue: the events in the Sender's channel, the response channel of
\* every emit so far (in the order the events were enqueued), the worker
\* task, the listener's data, the live handles to the Sender, and the
\* response channels the worker reported a send error for.
VARIABLES queue, chans, worker, data, senders, report

cvars == <<deser, keys, items, op, life>>

qvars == <<queue, chans, worker, data, senders, report>>

\* The emitter: the listeners map, every call of `on` so far, and the emit
\* call in progress or just returned.
VARIABLES listeners, registered, emitting

evars == <<listeners, registered, emitting>>

\* The logging facade: the SkuldLogger under construction, the logger the
\* log crate holds, the log crate's global maximum level, what the last init
\* returned, and the last record handed to a logging macro.
VARIABLES builder, logger, max_log_level, init_result, record

lvars == <<builder, logger, max_log_level, init_result, record>>

vars == <<cvars, qvars, evars, lvars>>

----------------------------------------------------------------------------
(* Bounds and the universe of values.                                      *)

MaxKey == 1

Keys == 0..MaxKey

\* The two item types of the documentation example; a TypeId is modelled by
\* the type's name.
Types == {"SomeStruct", "SomeOtherStruct"}

type_key(T) == IF T = "SomeStruct" THEN "struct SomeStruct" ELSE "struct SomeOtherStruct"

Tags == {type_key(T) : T \in Types}

\* Item::key
key(item) == item.id

\* The payloads an item of type T can carry besides its id: two for
\* SomeStruct, so that two items with the same key can differ, one for
\* SomeOtherStruct.
Vals(T) == IF T = "SomeStruct" THEN {"p", "q"} ELSE {"p"}

Items(T) == [id : Keys, val : Vals(T)]

----------------------------------------------------------------------------
(* HashMap primitives.                                                     *)

EmptyMap == [x \in {} |-> x]

Put(f, k, v) == [x \in (DOMAIN f) \cup {k} |-> IF x = k THEN v ELSE f[x]]

Remove(f, k) == [x \in (DOMAIN f) \ {k} |-> f[x]]

\* HashMap::get as an Option: {} is None, {v} is Some(v).
Lookup(f, k) == IF k \in DOMAIN f THEN {f[k]} ELSE {}

\* InnerHashMap<T> values: a sub-container keyed by the item's own key.
InnerHashMaps(T) ==
    UNION {{m \in [S -> Items(T)] : \A k \in S : key(m[k]) = k} : S \in SUBSET Keys}

\* A t::Box<dyn t::Any>: a value together with its concrete type.
Boxes == UNION {[ty : {T}, map : InnerHashMaps(T)] : T \in Types}

\* as_any().downcast_ref::<InnerHashMap<T>>() as an Option.
downcast(box, T) == IF box.ty = T THEN {box.map} ELSE {}

----------------------------------------------------------------------------
(* The document: a set of (tag, encoded sub-container) entries.  An        *)
(* encoded trait object names its concrete type and lists its entries.     *)

encode(box) == [ty |-> box.ty, entries |-> {<<k, box.map[k]>> : k \in DOMAIN box.map}]

decode(enc) ==
    [ty |-> enc.ty,
     map |-> [k \in {e[1] : e \in enc.entries} |-> (CHOOSE e \in enc.entries : e[1] = k)[2]]]

Docs ==
    UNION {{{<<t, encode(f[t])>> : t \in S} : f \in [S -> Boxes]} : S \in SUBSET Tags}

----------------------------------------------------------------------------
(* The cache as a value, and its operations as functions of that value.    *)

Cache(d, k, i) == [deser |-> d, keys |-> k, items |-> i]

new == Cache(EmptyMap, EmptyMap, EmptyMap)

self == Cache(deser, keys, items)

\* Mutant: the raw entry is copied to the typed partition and left in place.
extract_deser_keep(c, T) ==
    IF type_key(T) \in DOMAIN c.deser
    THEN [c EXCEPT !.items = Put(c.items, T, c.deser[type_key(T)])]
    ELSE c

\* Mutant: the raw entry is removed and its sub-container is lost.
extract_deser_drop(c, T) ==
    IF type_key(T) \in DOMAIN c.deser
    THEN [c EXCEPT !.deser = Remove(c.deser, type_key(T)),
                   !.items = Put(c.items, T, [ty |-> T, map |-> EmptyMap])]
    ELSE c

extract_deser(c, T) ==
    IF type_key(T) \in DOMAIN c.deser
    THEN [c EXCEPT !.deser = Remove(c.deser, type_key(T)),
                   !.items = Put(c.items, T, c.deser[type_key(T)])]
    ELSE c

immut_extract_deser(c, T) == Lookup(c.deser, type_key(T))

\* Mutant: insert keeps an item already stored under the key.
insert_keepfirst(c, T, item) ==
    LET c1 == extract_deser(c, T)
        c2 == [c1 EXCEPT !.keys = Put(c1.keys, T, type_key(T))]
        c3 == IF T \in DOMAIN c2.items
              THEN c2
              ELSE [c2 EXCEPT !.items = Put(c2.items, T, [ty |-> T, map |-> EmptyMap])]
        box == c3.items[T]
    IN  IF downcast(box, T) = {}
        THEN [cache |-> c3, fault |-> TRUE]
        ELSE [cache |-> IF key(item) \in DOMAIN box.map THEN c3
                        ELSE [c3 EXCEPT !.items[T].map = Put(box.map, key(item), item)],
              fault |-> FALSE]

\* Mutant: all types share one key space, an insert evicts the key elsewhere.
insert_shadow(c, T, item) ==
    LET c1 == extract_deser(c, T)
        c2 == [c1 EXCEPT !.keys = Put(c1.keys, T, type_key(T))]
        c3 == IF T \in DOMAIN c2.items
              THEN c2
              ELSE [c2 EXCEPT !.items = Put(c2.items, T, [ty |-> T, map |-> EmptyMap])]
        box == c3.items[T]
    IN  IF downcast(box, T) = {}
        THEN [cache |-> c3, fault |-> TRUE]
        ELSE [cache |-> [c3 EXCEPT !.items =
                            [U \in DOMAIN c3.items |->
                                IF U = T
                                THEN [box EXCEPT !.map = Put(box.map, key(item), item)]
                                ELSE [c3.items[U] EXCEPT !.map = Remove(@, key(item))]]],
              fault |-> FALSE]

\* insert: the cache afterwards and whether the unwrap of the downcast panicked.
insert(c, T, item) ==
    LET c1 == extract_deser(c, T)
        c2 == [c1 EXCEPT !.keys = Put(c1.keys, T, type_key(T))]
        c3 == IF T \in DOMAIN c2.items
              THEN c2
              ELSE [c2 EXCEPT !.items = Put(c2.items, T, [ty |-> T, map |-> EmptyMap])]
        box == c3.items[T]
    IN  IF downcast(box, T) = {}
        THEN [cache |-> c3, fault |-> TRUE]
        ELSE [cache |-> [c3 EXCEPT !.items[T].map = Put(box.map, key(item), item)],
              fault |-> FALSE]

\* Mutant: a lookup of a missing key answers with some item of the sub-container.
get_any(c, T, k) ==
    LET found == IF immut_extract_deser(c, T) # {}
                 THEN immut_extract_deser(c, T)
                 ELSE Lookup(c.items, T)
        maps == UNION {downcast(box, T) : box \in found}
    IN  UNION {IF k \in DOMAIN m \/ DOMAIN m = {}
               THEN Lookup(m, k)
               ELSE {m[CHOOSE x \in DOMAIN m : TRUE]} : m \in maps}

get(c, T, k) ==
    LET found == IF immut_extract_deser(c, T) # {}
                 THEN immut_extract_deser(c, T)
                 ELSE Lookup(c.items, T)
        maps == UNION {downcast(box, T) : box \in found}
    IN  UNION {Lookup(m, k) : m \in maps}

\* get_mut: the cache after promotion and the item the handle points to.
get_mut(c, T, k) ==
    LET c1 == extract_deser(c, T)
        maps == UNION {downcast(box, T) : box \in Lookup(c1.items, T)}
    IN  [cache |-> c1, ret |-> UNION {Lookup(m, k) : m \in maps}]

\* A write of payload v through the handle get_mut returned.
write(c, T, k, v) == [c EXCEPT !.items[T].map[k].val = v]

\* Mutant: take drops a sub-container it has emptied, and its registry entry.
take_gc(c, T, k) ==
    LET c1 == extract_deser(c, T)
        maps == UNION {downcast(box, T) : box \in Lookup(c1.items, T)}
        ret == UNION {Lookup(m, k) : m \in maps}
        left == IF maps = {} THEN EmptyMap ELSE Remove(c1.items[T].map, k)
    IN  [cache |-> IF maps = {} THEN c1
                   ELSE IF left = EmptyMap
                   THEN [c1 EXCEPT !.items = Remove(c1.items, T), !.keys = Remove(c1.keys, T)]
                   ELSE [c1 EXCEPT !.items[T].map = left],
         ret |-> ret]

\* Mutant: take empties the whole sub-container.
take_clear(c, T, k) ==
    LET c1 == extract_deser(c, T)
        maps == UNION {downcast(box, T) : box \in Lookup(c1.items, T)}
        ret == UNION {Lookup(m, k) : m \in maps}
    IN  [cache |-> IF ret = {}
                   THEN c1
                   ELSE [c1 EXCEPT !.items[T].map = EmptyMap],
         ret |-> ret]

take(c, T, k) ==
    LET c1 == extract_deser(c, T)
        maps == UNION {downcast(box, T) : box \in Lookup(c1.items, T)}
        ret == UNION {Lookup(m, k) : m \in maps}
    IN  [cache |-> IF maps = {}
                   THEN c1
                   ELSE [c1 EXCEPT !.items[T].map = Remove(c1.items[T].map, k)],
         ret |-> ret]

\* Mutant: typed sub-containers are written under the type identity, not the tag.
serialize_typeid(c) ==
    [fault |-> \E T \in DOMAIN c.items : T \notin DOMAIN c.keys,
     hint |-> Cardinality(DOMAIN c.items),
     doc |-> {<<T, encode(c.items[T])>> : T \in (DOMAIN c.items) \cap (DOMAIN c.keys)}
             \cup {<<t, encode(c.deser[t])>> : t \in DOMAIN c.deser}]

\* Mutant: only the typed sub-containers are written.
serialize_typedonly(c) ==
    [fault |-> \E T \in DOMAIN c.items : T \notin DOMAIN c.keys,
     hint |-> Cardinality(DOMAIN c.items),
     doc |-> {<<c.keys[T], encode(c.items[T])>> : T \in (DOMAIN c.items) \cap (DOMAIN c.keys)}]

\* Serialize for Cache: the document written, the length hint given to
\* serialize_map, and whether keys.get(key).unwrap() panicked.
serialize(c) ==
    [fault |-> \E T \in DOMAIN c.items : T \notin DOMAIN c.keys,
     hint |-> Cardinality(DOMAIN c.items),
     doc |-> {<<c.keys[T], encode(c.items[T])>> : T \in (DOMAIN c.items) \cap (DOMAIN c.keys)}
             \cup {<<t, encode(c.deser[t])>> : t \in DOMAIN c.deser}]

\* Mutant: deserialization decodes every known tag into the typed partition.
visit_map_eager(doc) ==
    LET tags == {e[1] : e \in doc}
        known == {T \in Types : type_key(T) \in tags}
    IN  {Cache([t \in tags \ Tags |-> d[t]],
               [T \in known |-> type_key(T)],
               [T \in known |-> d[type_key(T)]]) :
            d \in {f \in [tags -> {decode(e[2]) : e \in doc}] :
                      \A t \in tags : <<t, encode(f[t])>> \in doc}}

\* CacheVisitor::visit_map: the caches a document can deserialize to (with a
\* tag written twice, the entry read last stays).
visit_map(doc) ==
    LET tags == {e[1] : e \in doc}
    IN  {Cache(d, EmptyMap, EmptyMap) :
            d \in {f \in [tags -> {decode(e[2]) : e \in doc}] :
                      \A t \in tags : <<t, encode(f[t])>> \in doc}}

----------------------------------------------------------------------------
(* The state machine.  `op` records the last call, what it returned, and   *)
(* (`prev`) what get<T>(k) answered when the call began.                   *)
(* `life` records what this cache instance has been through: "new" (made   *)
(* by Cache::new, no mutating call yet), "inserts" (made by Cache::new,    *)
(* only inserts since), "loaded" (deserialized, no mutating call yet) or   *)
(* "used" (anything else).                                                 *)

\* Sender::new: nothing enqueued, the worker waiting, one handle.
QueueNew ==
    /\ queue = <<>>
    /\ chans = <<>>
    /\ worker = [pc |-> "next", ev |-> "-", ch |-> 0, res |-> <<>>]
    /\ data = <<>>
    /\ senders = 1
    /\ report = {}

NoEmit == [pc |-> "idle", ev |-> "-", msg |-> "-", before |-> 0, futs |-> <<>>, errors |-> <<>>]

\* EventEmitter::new
EmitterNew ==
    /\ listeners = EmptyMap
    /\ registered = <<>>
    /\ emitting = NoEmit

NoRecord == [target |-> <<>>, level |-> "-", passed |-> FALSE, written |-> FALSE]

\* No SkuldLogger yet; the log crate starts with no logger and the maximum
\* level Off.
NoLogger ==
    /\ builder = {}
    /\ logger = {}
    /\ max_log_level = "Off"
    /\ init_result = "-"
    /\ record = NoRecord

Call(name, T, k, raw, ret, fault, doc, prev) ==
    [name |-> name, ty |-> T, key |-> k, raw |-> raw, ret |-> ret, fault |-> fault,
     doc |-> doc, prev |-> prev]

\* What the raw partition holds under T's tag: nothing, a sub-container of T,
\* or a box of another type.
RawEntry(c, T) ==
    IF immut_extract_deser(c, T) = {} THEN "none"
    ELSE IF \E box \in immut_extract_deser(c, T) : downcast(box, T) # {} THEN "ok"
    ELSE "mismatch"

AfterInsert(l) == IF l \in {"new", "inserts"} THEN "inserts" ELSE "used"

InitNew ==
    /\ deser = new.deser /\ keys = new.keys /\ items = new.items
    /\ op = Call("new", "-", 0, "none", {}, FALSE, {}, {})
    /\ life = "new"

InitDocument ==
    \E doc \in Docs : \E c \in visit_map(doc) :
        /\ deser = c.deser /\ keys = c.keys /\ items = c.items
        /\ op = Call("deserialize", "-", 0, "none", {}, FALSE, doc, {})
        /\ life = "loaded"

Init == (InitNew \/ InitDocument) /\ QueueNew /\ EmitterNew /\ NoLogger

Insert ==
    /\ ~op.fault
    /\ \E T \in Types : \E item \in Items(T) :
        \E r \in {insert(self, T, item)} :
            /\ deser' = r.cache.deser /\ keys' = r.cache.keys /\ items' = r.cache.items
            /\ op' = Call("insert", T, key(item), RawEntry(self, T), {item}, r.fault, {},
                         get(self, T, key(item)))
            /\ life' = AfterInsert(life)
            /\ UNCHANGED <<qvars, evars, lvars>>

\* Mutant: the read-only lookup promotes like the mutating ones.
Get_promoting ==
    /\ ~op.fault
    /\ \E T \in Types, k \in Keys :
        LET c == extract_deser(self, T)
        IN  /\ deser' = c.deser /\ keys' = c.keys /\ items' = c.items
            /\ op' = Call("get", T, k, RawEntry(self, T), get(self, T, k), FALSE, {}, get(self, T, k))
            /\ UNCHANGED <<life, qvars, evars, lvars>>

Get ==
    /\ ~op.fault
    /\ \E T \in Types, k \in Keys :
        /\ op' = Call("get", T, k, RawEntry(self, T), get(self, T, k), FALSE, {}, get(self, T, k))
        /\ UNCHANGED <<deser, keys, items, life, qvars, evars, lvars>>

GetMut ==
    /\ ~op.fault
    /\ \E T \in Types, k \in Keys : \E v \in Vals(T) :
        \E r \in {get_mut(self, T, k)} :
        \E c \in {IF r.ret = {} THEN r.cache ELSE write(r.cache, T, k, v)} :
            /\ deser' = c.deser /\ keys' = c.keys /\ items' = c.items
            /\ op' = Call("get_mut", T, k, RawEntry(self, T), r.ret, FALSE, {}, get(self, T, k))
            /\ life' = "used"
            /\ UNCHANGED <<qvars, evars, lvars>>

Take ==
    /\ ~op.fault
    /\ \E T \in Types, k \in Keys :
        \E r \in {take(self, T, k)} :
            /\ deser' = r.cache.deser /\ keys' = r.cache.keys /\ items' = r.cache.items
            /\ op' = Call("take", T, k, RawEntry(self, T), r.ret, FALSE, {}, get(self, T, k))
            /\ life' = "used"
            /\ UNCHANGED <<qvars, evars, lvars>>

Serialize ==
    LET r == serialize(self)
    IN  /\ ~op.fault
        /\ op' = Call("serialize", "-", 0, "none", {}, r.fault, IF r.fault THEN {} ELSE r.doc, {})
        /\ UNCHANGED <<deser, keys, items, life, qvars, evars, lvars>>

\* from_str(&ser): a new cache from the document just written.
Deserialize ==
    /\ op.name = "serialize" /\ ~op.fault
    /\ \E c \in visit_map(op.doc) :
        /\ deser' = c.deser /\ keys' = c.keys /\ items' = c.items
    /\ op' = Call("deserialize", "-", 0, "none", {}, FALSE, op.doc, {})
    /\ life' = "loaded"
    /\ UNCHANGED <<qvars, evars, lvars>>

Next == Insert \/ Get \/ GetMut \/ Take \/ Serialize \/ Deserialize

Spec == Init /\ [][Next]_vars

----------------------------------------------------------------------------
(* The hermod Sender.  The worker task spawned by Sender::new is a process *)
(* with these positions: "next" (awaiting receiver.next()), "listen" (in    *)
(* the listener), "send" (about to send the response), "drop" (at the end  *)
(* of the loop body, where the response sender goes out of scope), and     *)
(* "stopped" once receiver.next() has returned None.                       *)

MaxEmits == 3

MaxSenders == 2

Events == {"a", "b"}

\* The listener: a function of the event and the data it may change.  This
\* one logs the event in the data and answers with the event and its rank.
listener(event, d) == [res |-> <<event, Len(d)>>, data |-> Append(d, event)]

\* mpsc::unbounded() for the response to event e: `rx` is the receiving end
\* ("held" by the caller of emit, "dropped" by that caller, "ended" once it
\* has seen the end of the stream, "none" when emit_responseless kept no
\* receiving end at all), `tx` the sending end ("live" or "dropped"), `buf`
\* the values sent and not yet received, `got` the values the caller received.
unbounded(e, rx) == [ev |-> e, rx |-> rx, tx |-> "live", buf |-> <<>>, got |-> <<>>]

Idle == [pc |-> "next", ev |-> "-", ch |-> 0, res |-> <<>>]

\* Sender::emit: the event and the sending end go into the queue, the
\* receiving end goes to the caller.  The call takes its Arc<Self> by value:
\* it uses up one handle to the Sender.
Emit ==
    /\ senders > 0 /\ Len(chans) < MaxEmits
    /\ \E e \in Events :
        /\ chans' = Append(chans, unbounded(e, "held"))
        /\ queue' = Append(queue, [ev |-> e, ch |-> Len(chans) + 1])
    /\ senders' = senders - 1
    /\ UNCHANGED <<worker, data, report, cvars, evars, lvars>>

\* Sender::emit_responseless: as emit, but nobody keeps a receiving end.
EmitResponseless ==
    /\ senders > 0 /\ Len(chans) < MaxEmits
    /\ \E e \in Events :
        /\ chans' = Append(chans, unbounded(e, "none"))
        /\ queue' = Append(queue, [ev |-> e, ch |-> Len(chans) + 1])
    /\ senders' = senders - 1
    /\ UNCHANGED <<worker, data, report, cvars, evars, lvars>>

\* Mutant: the worker takes the event enqueued last.
WorkerNext_lifo ==
    /\ worker.pc = "next" /\ queue # <<>>
    /\ worker' = [pc |-> "listen", ev |-> queue[Len(queue)].ev, ch |-> queue[Len(queue)].ch,
                  res |-> <<>>]
    /\ queue' = SubSeq(queue, 1, Len(queue) - 1)
    /\ UNCHANGED <<chans, data, senders, report, cvars, evars, lvars>>

\* receiver.next().await returns Some((event, sender)).
WorkerNext ==
    /\ worker.pc = "next" /\ queue # <<>>
    /\ worker' = [pc |-> "listen", ev |-> Head(queue).ev, ch |-> Head(queue).ch, res |-> <<>>]
    /\ queue' = Tail(queue)
    /\ UNCHANGED <<chans, data, senders, report, cvars, evars, lvars>>

\* listener(event, &mut data).await
WorkerListen ==
    /\ worker.pc = "listen"
    /\ worker' = [worker EXCEPT !.pc = "send", !.res = listener(worker.ev, data).res]
    /\ data' = listener(worker.ev, data).data
    /\ UNCHANGED <<queue, chans, senders, report, cvars, evars, lvars>>

\* Mutant: the response goes to the channel of the newest emit.
WorkerSend_newest ==
    /\ worker.pc = "send"
    /\ IF chans[Len(chans)].rx = "held"
       THEN /\ chans' = [chans EXCEPT ![Len(chans)].buf = Append(@, worker.res)]
            /\ UNCHANGED report
       ELSE /\ report' = report \cup {worker.ch}
            /\ UNCHANGED chans
    /\ worker' = [worker EXCEPT !.pc = "drop"]
    /\ UNCHANGED <<queue, data, senders, cvars, evars, lvars>>

\* Mutant: a failed send ends the worker loop.
WorkerSend_break ==
    /\ worker.pc = "send"
    /\ IF chans[worker.ch].rx = "held"
       THEN /\ chans' = [chans EXCEPT ![worker.ch].buf = Append(@, worker.res)]
            /\ worker' = [worker EXCEPT !.pc = "drop"]
            /\ UNCHANGED report
       ELSE /\ report' = report \cup {worker.ch}
            /\ worker' = [worker EXCEPT !.pc = "stopped"]
            /\ UNCHANGED chans
    /\ UNCHANGED <<queue, data, senders, cvars, evars, lvars>>

\* sender.send(res).await: the value is buffered for the receiving end, or,
\* with the receiving end gone, the error is printed.
WorkerSend ==
    /\ worker.pc = "send"
    /\ IF chans[worker.ch].rx = "held"
       THEN /\ chans' = [chans EXCEPT ![worker.ch].buf = Append(@, worker.res)]
            /\ UNCHANGED report
       ELSE /\ report' = report \cup {worker.ch}
            /\ UNCHANGED chans
    /\ worker' = [worker EXCEPT !.pc = "drop"]
    /\ UNCHANGED <<queue, data, senders, cvars, evars, lvars>>

\* End of the loop body: the response sender is dropped.
WorkerDrop ==
    /\ worker.pc = "drop"
    /\ chans' = [chans EXCEPT ![worker.ch].tx = "dropped"]
    /\ worker' = Idle
    /\ UNCHANGED <<queue, data, senders, report, cvars, evars, lvars>>

\* receiver.next().await returns None: every Sender handle is gone and the
\* queue is drained.
WorkerStop ==
    /\ worker.pc = "next" /\ queue = <<>> /\ senders = 0
    /\ worker' = [worker EXCEPT !.pc = "stopped"]
    /\ UNCHANGED <<queue, chans, data, senders, report, cvars, evars, lvars>>

\* The caller's recv.next().await returns Some(value).
Receive ==
    \E i \in DOMAIN chans :
        /\ chans[i].rx = "held" /\ chans[i].buf # <<>>
        /\ chans' = [chans EXCEPT ![i].got = Append(@, Head(chans[i].buf)),
                                  ![i].buf = Tail(@)]
        /\ UNCHANGED <<queue, worker, data, senders, report, cvars, evars, lvars>>

\* The caller's recv.next().await returns None.
ReceiveEnd ==
    \E i \in DOMAIN chans :
        /\ chans[i].rx = "held" /\ chans[i].buf = <<>> /\ chans[i].tx = "dropped"
        /\ chans' = [chans EXCEPT ![i].rx = "ended"]
        /\ UNCHANGED <<queue, worker, data, senders, report, cvars, evars, lvars>>

\* The caller drops the receiver emit returned, and with it what the
\* receiver held and what the caller had taken from it.
DropReceiver ==
    \E i \in DOMAIN chans :
        /\ chans[i].rx = "held"
        /\ chans' = [chans EXCEPT ![i].rx = "dropped", ![i].buf = <<>>, ![i].got = <<>>]
        /\ UNCHANGED <<queue, worker, data, senders, report, cvars, evars, lvars>>

\* Arc::clone of the Sender.
CloneSender ==
    /\ senders > 0 /\ senders < MaxSenders
    /\ senders' = senders + 1
    /\ UNCHANGED <<queue, chans, worker, data, report, cvars, evars, lvars>>

\* A handle to the Sender is dropped.
DropSender ==
    /\ senders > 0
    /\ senders' = senders - 1
    /\ UNCHANGED <<queue, chans, worker, data, report, cvars, evars, lvars>>

InitQueue == InitNew /\ QueueNew /\ EmitterNew /\ NoLogger

NextQueue ==
    \/ Emit \/ EmitResponseless
    \/ WorkerNext \/ WorkerListen \/ WorkerSend \/ WorkerDrop \/ WorkerStop
    \/ Receive \/ ReceiveEnd \/ DropReceiver
    \/ CloneSender \/ DropSender

SpecQueue == InitQueue /\ [][NextQueue]_vars

\* The steps of the worker task; its position enables one of them at most.
Worker == WorkerNext \/ WorkerListen \/ WorkerSend \/ WorkerDrop \/ WorkerStop

\* The executor runs the spawned worker task as long as it can take a step,
\* and the listener's future completes.
SpecQueueFair == SpecQueue /\ WF_vars(Worker)

----------------------------------------------------------------------------
(* The hermod EventEmitter.  `on` and `emit` are functions of the          *)
(* listeners map; an emit call in progress is a process: join_all polls    *)
(* the futures in list order, the first poll of a future calls its         *)
(* listener, and the listeners' futures complete in any order.             *)

MaxListeners == 3

\* The event types, the messages and the listener functions of a program.
EventTypes == {"SomethingHappened", "SomethingElse"}

Messages == {"Hi there!", "Bye"}

Fns == {"f", "g"}

\* Box::new(listener) for a Listener<Ev, Err>: the function pointer together
\* with its concrete type.
BoxListener(Ev, f) == [ty |-> Ev, fn |-> f]

\* Mutant: a listener takes the place of the ones registered before it.
on_replace(ls, Ev, f) == Put(ls, Ev, <<BoxListener(Ev, f)>>)

\* EventEmitter::on: entry(TypeId::of::<Ev>()).or_default().push(..)
on(ls, Ev, f) ==
    IF Ev \in DOMAIN ls
    THEN [ls EXCEPT ![Ev] = Append(@, BoxListener(Ev, f))]
    ELSE Put(ls, Ev, <<BoxListener(Ev, f)>>)

\* self.listeners.get(&TypeId::of::<Ev>()) as an Option.
event_list(ls, Ev) == Lookup(ls, Ev)

\* The futures emit builds from an event list: one for every box that
\* downcasts to Listener<Ev, Err>, not yet polled, with the message it will
\* hand to the listener.
futures(list, Ev, arg) ==
    LET ns == SelectSeq(list, LAMBDA n : n.ty = Ev)
    IN  [i \in DOMAIN ns |-> [fn |-> ns[i].fn, st |-> "new", arg |-> arg, calls |-> <<>>]]

\* emitter.on::<Ev>(f); it borrows the emitter mutably, so no emit is in
\* progress.
On ==
    /\ emitting.pc # "join" /\ Len(registered) < MaxListeners
    /\ \E Ev \in EventTypes, f \in Fns :
        /\ listeners' = on(listeners, Ev, f)
        /\ registered' = Append(registered, <<Ev, f>>)
    /\ UNCHANGED <<emitting, cvars, qvars, lvars>>

\* emitter.emit::<Ev>(arg) up to join_all(futures).await; with no event list
\* for Ev the call returns at once.  `before` notes how many calls of `on`
\* came before this emit.
EmitBegin ==
    /\ emitting.pc # "join"
    /\ \E Ev \in EventTypes, arg \in Messages :
        emitting' =
            IF event_list(listeners, Ev) = {}
            THEN [pc |-> "returned", ev |-> Ev, msg |-> arg, before |-> Len(registered),
                  futs |-> <<>>, errors |-> <<>>]
            ELSE [pc |-> "join", ev |-> Ev, msg |-> arg, before |-> Len(registered),
                  errors |-> <<>>,
                  futs |-> futures(CHOOSE l \in event_list(listeners, Ev) : TRUE, Ev, arg)]
    /\ UNCHANGED <<listeners, registered, cvars, qvars, lvars>>

\* join_all polls the next future for the first time: n(Arc::clone(&arg)).
ListenerCall ==
    /\ emitting.pc = "join"
    /\ \E i \in DOMAIN emitting.futs :
        /\ emitting.futs[i].st = "new"
        /\ \A j \in 1..(i - 1) : emitting.futs[j].st # "new"
        /\ emitting' = [emitting EXCEPT !.futs[i].st = "running",
                                        !.futs[i].calls = Append(@, emitting.futs[i].arg)]
    /\ UNCHANGED <<listeners, registered, cvars, qvars, lvars>>

\* A listener's future completes, with Ok(()) or with an error.
ListenerComplete ==
    /\ emitting.pc = "join"
    /\ \E i \in DOMAIN emitting.futs, r \in {"ok", "err"} :
        /\ emitting.futs[i].st = "running"
        /\ emitting' = [emitting EXCEPT !.futs[i].st = r]
    /\ UNCHANGED <<listeners, registered, cvars, qvars, lvars>>

\* join_all is ready: every error is reported, in list order; emit returns.
EmitReturn ==
    /\ emitting.pc = "join"
    /\ \A i \in DOMAIN emitting.futs : emitting.futs[i].st \in {"ok", "err"}
    /\ emitting' = [emitting EXCEPT
            !.pc = "returned",
            !.errors = SelectSeq([i \in DOMAIN emitting.futs |-> i],
                                 LAMBDA i : emitting.futs[i].st = "err")]
    /\ UNCHANGED <<listeners, registered, cvars, qvars, lvars>>

----------------------------------------------------------------------------
(* The skuld logging facade.  A SkuldLogger is built by new, with_level    *)
(* and with_module and handed to the log crate by init; the logging macros *)
(* of the log crate compare a record's level with the global maximum level *)
(* and pass the record to the installed logger.  Strings are sequences of  *)
(* characters.                                                             *)

\* log::LevelFilter, from the least to the most verbose; log::Level is the
\* same without Off.
LevelFilters == <<"Off", "Error", "Warn", "Info", "Debug", "Trace">>

Levels == {"Error", "Warn", "Info", "Debug", "Trace"}

\* The derived order of the levels.
rank(l) == CHOOSE i \in DOMAIN LevelFilters : LevelFilters[i] = l

\* The levels a program configures, the module names it configures and the
\* targets of its records.
ConfigLevels == {"Error", "Debug"}

ModuleNames == {<<"a">>, <<"a", "b">>}

Targets == {<<"a", "b", "c">>, <<"a", "c">>, <<"c">>}

Metadata == [target : Targets, level : Levels]

\* str::starts_with
starts_with(t, name) == Len(name) <= Len(t) /\ SubSeq(t, 1, Len(name)) = name

\* A SkuldLogger: `iter` is the order in which modules.iter() yields the
\* names, which a HashMap fixes by its hasher's random keys.
SkuldLogger(level, modules, iter) == [level |-> level, modules |-> modules, iter |-> iter]

\* SkuldLogger::new
new_logger == SkuldLogger("Info", EmptyMap, <<>>)

with_level(lg, level) == [lg EXCEPT !.level = level]

\* The sequences with x put into sequence q at some place.
Inserted(q, x) ==
    {SubSeq(q, 1, i) \o <<x>> \o SubSeq(q, i + 1, Len(q)) : i \in 0..Len(q)}

\* SkuldLogger::with_module: the loggers modules.insert can leave.  A name
\* already there keeps its place; a new name lands where its hash puts it.
with_module(lg, module, level) ==
    IF module \in DOMAIN lg.modules
    THEN {[lg EXCEPT !.modules[module] = level]}
    ELSE {[lg EXCEPT !.modules = Put(lg.modules, module, level), !.iter = o] :
            o \in Inserted(lg.iter, module)}

\* SkuldLogger::max_level
max_level(lg) ==
    LET all == {lg.modules[m] : m \in DOMAIN lg.modules} \cup {lg.level}
    IN  CHOOSE l \in all : \A l2 \in all : rank(l2) <= rank(l)

\* Log::enabled for SkuldLogger: the level of the first module name, in
\* iteration order, the target starts with, or else the global level.
enabled(lg, meta) ==
    LET found == SelectSeq(lg.iter, LAMBDA name : starts_with(meta.target, name))
        level == IF found = <<>> THEN lg.level ELSE lg.modules[Head(found)]
    IN  rank(meta.level) <= rank(level)

\* SkuldLogger::new(path)
LoggerNew ==
    /\ builder = {}
    /\ builder' = {new_logger}
    /\ UNCHANGED <<logger, max_log_level, init_result, record, cvars, qvars, evars>>

WithLevel ==
    /\ \E lg \in builder, level \in ConfigLevels :
        builder' = {with_level(lg, level)}
    /\ UNCHANGED <<logger, max_log_level, init_result, record, cvars, qvars, evars>>

WithModule ==
    /\ \E lg \in builder, module \in ModuleNames, level \in ConfigLevels :
        \E lg2 \in with_module(lg, module, level) :
            builder' = {lg2}
    /\ UNCHANGED <<logger, max_log_level, init_result, record, cvars, qvars, evars>>

\* SkuldLogger::init: log::set_max_level, then log::set_boxed_logger, which
\* fails when the log crate holds a logger already.
LoggerInit ==
    /\ \E lg \in builder :
        /\ max_log_level' = max_level(lg)
        /\ logger' = IF logger = {} THEN {lg} ELSE logger
        /\ init_result' = IF logger = {} THEN "Ok" ELSE "Err"
    /\ builder' = {}
    /\ UNCHANGED <<record, cvars, qvars, evars>>

\* A logging macro of the log crate: the record goes to the installed
\* logger when its level is within the global maximum level; Log::log for
\* SkuldLogger writes the line when the record is enabled.
Log ==
    /\ \E meta \in Metadata :
        LET passed == rank(meta.level) <= rank(max_log_level)
        IN  record' = [target |-> meta.target, level |-> meta.level, passed |-> passed,
                       written |-> passed /\ \E lg \in logger : enabled(lg, meta)]
    /\ UNCHANGED <<builder, logger, max_log_level, init_result, cvars, qvars, evars>>

InitLogger == InitNew /\ QueueNew /\ EmitterNew /\ NoLogger

NextLogger == LoggerNew \/ WithLevel \/ WithModule \/ LoggerInit \/ Log

SpecLogger == InitLogger /\ [][NextLogger]_vars

InitEmitter == InitNew /\ QueueNew /\ EmitterNew /\ NoLogger

NextEmitter == On \/ EmitBegin \/ ListenerCall \/ ListenerComplete \/ EmitReturn

SpecEmitter == InitEmitter /\ [][NextEmitter]_vars

----------------------------------------------------------------------------
(* Properties.                                                             *)

Promoting == {"insert", "get_mut", "take"}

\* The per-type state of section 4.4.
State(c, T) ==
    IF T \in DOMAIN c.items THEN "Typed"
    ELSE IF type_key(T) \in DOMAIN c.deser THEN "Raw"
    ELSE "Absent"

\* C1: a cache built from an empty one by inserts alone serializes without a
\* fault, and every cache its document deserializes to answers get<T>(k) as
\* the original does, for every type T and key k.
C1_RoundTrip ==
    life \in {"new", "inserts"} =>
        LET s == serialize(self)
        IN  /\ ~s.fault
            /\ \A c \in visit_map(s.doc) : \A T \in Types, k \in Keys :
                    get(c, T, k) = get(self, T, k)

\* Items of both types were inserted, the cache was serialized, and the
\* deserialized document returns them from its raw partition.
C1_Witness ==
    /\ life = "inserts"
    /\ op.name = "serialize" /\ ~op.fault
    /\ \E c \in visit_map(op.doc) :
        /\ c.items = EmptyMap
        /\ get(c, "SomeStruct", 0) = {[id |-> 0, val |-> "q"]}
        /\ get(c, "SomeStruct", 1) # {}
        /\ get(c, "SomeOtherStruct", 1) # {}

\* C2: the registry has an entry for a type exactly when the typed partition
\* has a sub-container for it.
C2_RegistryIffTyped ==
    \A T \in Types : (T \in DOMAIN keys) <=> (T \in DOMAIN items)

\* C3: serializing completes without a fault, and the document holds every
\* typed sub-container under its type's tag and every raw entry under its own.
C3_SerializeComplete ==
    op.name = "serialize" =>
        /\ ~op.fault
        /\ \A T \in DOMAIN items : <<type_key(T), encode(items[T])>> \in op.doc
        /\ \A t \in DOMAIN deser : <<t, encode(deser[t])>> \in op.doc

\* C4: no type has data in the raw partition and in the typed partition at
\* the same time.
C4_PartitionExclusive ==
    \A T \in Types : ~(type_key(T) \in DOMAIN deser /\ T \in DOMAIN items)

\* A promoting call moved one type out of the raw partition while the other
\* type is still raw.
C4_Witness ==
    /\ op.name \in Promoting /\ op.raw = "ok"
    /\ op.ty \in DOMAIN items /\ type_key(op.ty) \notin DOMAIN deser
    /\ \E T \in Types : T # op.ty /\ type_key(T) \in DOMAIN deser /\ T \notin DOMAIN items

\* C5: a promoting call on a type that is in the raw partition removes the
\* raw entry, leaves a typed sub-container, and get<T>(k) answers as before
\* for every key other than the one the call was given.
C5_PromotionPreservesData ==
    [][\A T \in Types :
        (type_key(T) \in DOMAIN deser /\ op'.name \in Promoting /\ op'.ty = T) =>
            /\ type_key(T) \notin DOMAIN deser'
            /\ T \in DOMAIN items'
            /\ \A k \in Keys \ {op'.key} : get(self', T, k) = get(self, T, k)]_vars

\* A promoting call found a decodable raw entry and another key of the type
\* still answers with its item.
C5_Witness ==
    /\ op.name \in Promoting /\ op.raw = "ok"
    /\ State(self, op.ty) = "Typed"
    /\ \E k \in Keys \ {op.key} : get(self, op.ty, k) # {}

\* C6: get changes none of the three maps; on a freshly deserialized cache
\* the raw entry of the type read stays raw.
C6_GetNeutral ==
    [][op'.name = "get" =>
        /\ UNCHANGED <<deser, keys, items>>
        /\ (op'.raw # "none" => State(self', op'.ty) = "Raw")]_vars

\* get returned an item straight from the raw partition of a freshly
\* deserialized cache.
C6_Witness ==
    /\ op.name = "get" /\ op.raw = "ok" /\ op.ret # {}
    /\ life = "loaded"
    /\ State(self, op.ty) = "Raw"

\* C7: a lookup that meets a raw entry it cannot decode as T reports an error
\* and not the absence result.
C7_DecodeErrorDistinct ==
    (op.name \in {"get", "get_mut", "take"} /\ op.raw = "mismatch") =>
        ~(op.ret = {} /\ ~op.fault)

\* C8: a mutating call that meets a raw entry it cannot decode as T leaves
\* the three maps as they were.
C8_FailedDecodeLocal ==
    [][(op'.name \in Promoting /\ op'.raw = "mismatch") =>
        UNCHANGED <<deser, keys, items>>]_vars

\* C9: within one cache instance a type stays Typed once Typed, leaves Raw
\* only for Typed and only by a promoting call on it, leaves Absent only for
\* Typed and only by an insert of it; registry entries are never removed.
C9_TypeStateMachine ==
    [][op'.name # "deserialize" =>
        \A T \in Types :
            LET a == State(self, T)
                b == State(self', T)
            IN  /\ a = "Typed" => b = "Typed"
                /\ a = "Raw" => b \in {"Raw", "Typed"}
                /\ (a = "Raw" /\ b = "Typed") => (op'.name \in Promoting /\ op'.ty = T)
                /\ a = "Absent" => b \in {"Absent", "Typed"}
                /\ (a = "Absent" /\ b = "Typed") => (op'.name = "insert" /\ op'.ty = T)
                /\ T \in DOMAIN keys => T \in DOMAIN keys']_vars

\* take removed the last item of a registered type: the empty sub-container
\* and the registry entry are still there.
C9_Witness ==
    /\ op.name = "take" /\ op.ret # {}
    /\ op.ty \in DOMAIN items /\ items[op.ty].map = EmptyMap
    /\ op.ty \in DOMAIN keys

\* C10: right after deserialization the typed partition and the registry are
\* empty and the raw partition holds exactly the document's entries; this
\* stays so until the first insert, get_mut or take.
C10_DeserializeRawOnly ==
    /\ [](op.name = "deserialize" =>
            /\ DOMAIN deser = {e[1] : e \in op.doc}
            /\ \A e \in op.doc : encode(deser[e[1]]) = e[2])
    /\ [](life = "loaded" => (items = EmptyMap /\ keys = EmptyMap))
    /\ [][(life = "loaded" /\ life' = "loaded" /\ op'.name # "deserialize") =>
            deser' = deser]_vars

\* A document with both tags was deserialized and then only read.
C10_Witness ==
    /\ life = "loaded"
    /\ op.name = "get" /\ op.ret # {}
    /\ DOMAIN deser = Tags /\ items = EmptyMap /\ keys = EmptyMap

Lookups == {"get", "get_mut", "take"}

\* The sub-containers of T a lookup can reach: the raw one when there is one,
\* else the typed one, when it is an InnerHashMap<T>.
SubContainers(c, T) ==
    UNION {downcast(box, T) :
            box \in IF type_key(T) \in DOMAIN c.deser
                    THEN {c.deser[type_key(T)]}
                    ELSE Lookup(c.items, T)}

\* C11: a lookup of a type that is in neither partition, or of a key its
\* sub-container does not hold, returns the absence result and does not fault.
C11_MissIsAbsence ==
    [][(/\ op'.name \in Lookups
        /\ \/ State(self, op'.ty) = "Absent"
           \/ \E m \in SubContainers(self, op'.ty) : op'.key \notin DOMAIN m) =>
            (op'.ret = {} /\ ~op'.fault)]_vars

\* take missed a key of a typed sub-container that holds another key.
C11_Witness ==
    /\ op.name = "take" /\ op.ret = {} /\ ~op.fault
    /\ State(self, op.ty) = "Typed"
    /\ \E m \in SubContainers(self, op.ty) : DOMAIN m # {} /\ op.key \notin DOMAIN m

\* C12: after a mutating call, the same call once more leaves the three maps
\* as they are, and finds no raw entry to decode.
C12_MutationIdempotent ==
    op.name \in Promoting =>
        /\ RawEntry(self, op.ty) = "none"
        /\ op.name = "insert" => \A item \in op.ret : insert(self, op.ty, item).cache = self
        /\ op.name = "get_mut" =>
                /\ get_mut(self, op.ty, op.key).cache = self
                /\ get_mut(self, op.ty, op.key).ret = get(self, op.ty, op.key)
        /\ op.name = "take" =>
                /\ take(self, op.ty, op.key).cache = self
                /\ take(self, op.ty, op.key).ret = {}

\* A take promoted its type and removed an item; others are left.
C12_Witness ==
    /\ op.name = "take" /\ op.raw = "ok" /\ op.ret # {}
    /\ \E m \in SubContainers(self, op.ty) : DOMAIN m # {}

\* C13: after an insert, get<T>(k) returns the item just inserted and nothing
\* else, whatever was stored under k before.
C13_Overwrite ==
    (op.name = "insert" /\ ~op.fault) =>
        /\ get(self, op.ty, op.key) = op.ret
        /\ \A old \in op.prev \ op.ret :
                \A k \in Keys : old \notin get(self, op.ty, k)

\* A second insert under the same key replaced a different item that an
\* earlier insert had stored.
C13_Witness ==
    /\ op.name = "insert" /\ ~op.fault /\ life = "inserts"
    /\ op.prev # {} /\ op.prev # op.ret
    /\ get(self, op.ty, op.key) = op.ret

\* The gets of a cache after a round trip through its document.
RoundTripSame(c) ==
    LET s == serialize(c)
    IN  ~s.fault =>
            \A c2 \in visit_map(s.doc) : \A T \in Types, k \in Keys :
                get(c2, T, k) = get(c, T, k)

C15_Removal ==
    [][(op'.name = "take" /\ get(self, op'.ty, op'.key) # {}) =>
        /\ op'.ret = get(self, op'.ty, op'.key)
        /\ get(self', op'.ty, op'.key) = {}
        /\ \A k \in Keys \ {op'.key} :
                get(self', op'.ty, k) = get(self, op'.ty, k)]_vars

\* take returned an item and another key of the type still has its item.
C15_Witness ==
    /\ op.name = "take" /\ op.ret # {} /\ op.ret = op.prev
    /\ get(self, op.ty, op.key) = {}
    /\ \E k \in Keys \ {op.key} : get(self, op.ty, k) # {}

C18_LengthHint ==
    (op.name = "serialize" /\ ~op.fault) => serialize(self).hint = Cardinality(op.doc)

----------------------------------------------------------------------------
(* The hermod Sender                                                        *)

\* The data value after the listener has handled the first n enqueued
\* events, one after the other, starting from the value given to Sender::new.
RECURSIVE Fold(_)
Fold(n) == IF n = 0 THEN <<>> ELSE listener(chans[n].ev, Fold(n - 1)).data

\* The listener's result for the i-th enqueued event.
Response(i) == listener(chans[i].ev, Fold(i - 1)).res

\* How many enqueued events the worker has taken from the queue.
Taken == Len(chans) - Len(queue)

\* How many enqueued events the listener has finished.
Handled == IF worker.pc = "listen" THEN Taken - 1 ELSE Taken

\* C16 (safety part): a receiver returned by emit never holds or has
\* received more than one value; every such value is the listener's result
\* for the event of that very emit; no value is there before the listener
\* has finished that event; once the worker is done with the event the
\* response sender is dropped, and a receiver still held then has exactly
\* one value; a receiver that has seen the end of the stream has received
\* exactly one value.
ResponseSafe ==
    \A i \in DOMAIN chans :
        LET c == chans[i] IN
        /\ Len(c.got) + Len(c.buf) <= 1
        /\ \A j \in DOMAIN c.got : c.got[j] = Response(i)
        /\ \A j \in DOMAIN c.buf : c.buf[j] = Response(i)
        /\ Handled < i => (c.got = <<>> /\ c.buf = <<>> /\ c.tx = "live")
        /\ (Handled >= i /\ worker.ch # i) => c.tx = "dropped"
        /\ (c.rx = "held" /\ c.tx = "dropped") => Len(c.got) + Len(c.buf) = 1
        /\ c.rx = "ended" => (c.got = <<Response(i)>> /\ c.tx = "dropped")

\* C16: queue response protocol.  ResponseSafe always holds, and once the
\* listener has finished an event the worker gets done with it: by
\* ResponseSafe the one value has then arrived at a receiver still held and
\* the channel is closed behind it.
C16_ResponseProtocol ==
    /\ []ResponseSafe
    /\ (worker.pc = "send") ~> (worker.pc = "next" /\ ResponseSafe)

\* Two emits of different events, and the caller of the second has received
\* its response and then seen the stream end.
C16_Witness ==
    \E i \in DOMAIN chans :
        /\ i > 1 /\ chans[i - 1].ev # chans[i].ev /\ chans[i - 1].rx # "none"
        /\ chans[i].rx = "ended" /\ chans[i].got = <<Response(i)>>

\* C19: queue ordering.  The queue holds, in enqueue order, exactly the
\* events not yet taken; the event the worker is at is the one enqueued
\* right before them; the data value is the listener folded over the events
\* finished so far, in enqueue order; and the response the worker holds is
\* the listener's result at that point of the fold.
C19_SequentialFold ==
    /\ data = Fold(Handled)
    /\ \A j \in DOMAIN queue :
        queue[j].ch = Taken + j /\ queue[j].ev = chans[Taken + j].ev
    /\ worker.pc \in {"listen", "send", "drop"} =>
        (worker.ch = Taken /\ worker.ev = chans[Taken].ev)
    /\ worker.pc \in {"send", "drop"} => worker.res = Response(Taken)
    /\ worker.pc \in {"next", "stopped"} => worker = [Idle EXCEPT !.pc = worker.pc]

\* An emit_responseless and an emit of different events were both waiting in
\* the queue, and the listener has finished both.
C19_Witness ==
    /\ Len(chans) >= 2 /\ Handled >= 2
    /\ chans[1].rx = "none" /\ chans[2].rx # "none" /\ chans[1].ev # chans[2].ev
    /\ SubSeq(data, 1, 2) = <<chans[1].ev, chans[2].ev>>

\* The worker is at a send that fails: the receiving end is gone.
SendFails == worker.pc = "send" /\ chans[worker.ch].rx # "held"

----------------------------------------------------------------------------
(* The hermod EventEmitter                                                  *)

\* The listeners registered with on<Ev> by the first n calls of `on`, in the
\* order of the calls.
RegisteredFor(Ev, n) ==
    LET calls == SelectSeq(SubSeq(registered, 1, n), LAMBDA r : r[1] = Ev)
    IN  [i \in DOMAIN calls |-> calls[i][2]]

\* C21: EventEmitter dispatch.  An emit<Ev>(msg) has one future for every
\* listener registered with on<Ev> before it and for no other listener;
\* each listener is called at most once, with msg; when emit has returned
\* every one of them was called exactly once and has completed, whatever the
\* results were, and exactly the errors were reported; with nothing
\* registered for Ev no listener was called.
C21_Dispatch ==
    emitting.pc \in {"join", "returned"} =>
        LET futs == emitting.futs
        IN  /\ [i \in DOMAIN futs |-> futs[i].fn] = RegisteredFor(emitting.ev, emitting.before)
            /\ \A i \in DOMAIN futs :
                /\ futs[i].calls = IF futs[i].st = "new" THEN <<>> ELSE <<emitting.msg>>
                /\ emitting.pc = "returned" => futs[i].st \in {"ok", "err"}
            /\ emitting.pc = "returned" =>
                    \A i \in DOMAIN futs : futs[i].st = "err" <=>
                        \E j \in DOMAIN emitting.errors : emitting.errors[j] = i
            /\ emitting.pc = "join" => emitting.errors = <<>>

\* An emit has returned after its first listener failed and its second one
\* succeeded, while a listener for the other event type is registered.
C21_Witness ==
    /\ emitting.pc = "returned" /\ Len(emitting.futs) = 2
    /\ emitting.futs[1].st = "err" /\ emitting.futs[2].st = "ok"
    /\ emitting.futs[2].calls = <<emitting.msg>>
    /\ \E Ev \in DOMAIN listeners : Ev # emitting.ev
    /\ emitting.before = Len(registered)

----------------------------------------------------------------------------
(* The skuld logging facade                                                 *)

\* C22: enabled is a function of the configuration and the record: two
\* loggers with the same global level and the same module levels give the
\* same answer for every record.
C22_EnabledDeterministic ==
    \A lg1 \in builder, lg2 \in logger :
        (lg1.level = lg2.level /\ lg1.modules = lg2.modules) =>
            \A meta \in Metadata : enabled(lg1, meta) = enabled(lg2, meta)

\* C23: the global maximum level lets through every record the installed
\* logger enables.
C23_FilterCoversEnabled ==
    \A lg \in logger : \A meta \in Metadata :
        enabled(lg, meta) => rank(meta.level) <= rank(max_log_level)

====
